---------------------------- MODULE Spec2Model ----------------------------
(***************************************************************************)
(* ClipCompass: the highlight pipeline of src/processing.py as driven by   *)
(* src/app.py.  One run is transcribe -> generate_highlight_clips ->        *)
(* combine_clips_route -> combine_clips_into_reel.  Times are whole         *)
(* seconds, progress values are exact fractions [num, den], the external    *)
(* encoder (ffmpeg) is a nondeterministic success/failure whose every       *)
(* invocation is logged in ffmpeg_calls.                                    *)
(***************************************************************************)
EXTENDS Integers, Sequences, FiniteSets, TLC

VARIABLES
    asr_segments,        \* what model.transcribe yields: [start, end, text]
    max_clips,           \* generate_highlight_clips argument
    max_total_duration,  \* generate_highlight_clips argument
    pc,                  \* position of the run
    t_idx,               \* transcribe: idx of the enumerate loop
    segment_list,        \* transcribe: the scored segments
    highlights,          \* generate_highlight_clips: filtered, ranked segments
    idx,                 \* generate_highlight_clips: highlights consumed so far
    clip_files,          \* generate_highlight_clips: names of rendered clips
    total_duration,      \* generate_highlight_clips: running total
    uuid_count,          \* uuid4() values drawn so far
    ffmpeg_calls,        \* log of encoder invocations, in order
    files,               \* names present in the clips folder
    progress,            \* values handed to the progress callback, in order
    ordered_clips,       \* combine_clips_route: the caller's clip order
    card,                \* combine_clips_into_reel: cards made so far
    result,              \* combine_clips_into_reel: return value
    raised,              \* exception that left the run, or "none"
    \* caption layout of one render (wrap, then escape)
    caption,             \* text: the segment's text
    words,               \* text.split()
    w_idx,               \* words consumed by the wrap loop
    lines,               \* lines
    current_line,        \* current_line
    wrapped_text,        \* wrapped_text
    safe_text,           \* safe_text
    tpc,                 \* position of the caption layout
    \* two requests served at once over the same folders
    req_kind,            \* per request: "upload" or "combine"
    req_step,            \* per request: file operations completed
    req_busy,            \* per request: the path it is writing, or <<>>
    disk,                \* per path: status, current writers, past writers
    reads,               \* file reads made so far
    uuid_next            \* uuid4() values drawn by the two requests

pipelineVars == <<asr_segments, max_clips, max_total_duration, pc,
                  t_idx, segment_list, highlights, idx, clip_files,
                  total_duration, uuid_count, ffmpeg_calls, files, progress,
                  ordered_clips, card, result, raised>>

captionVars == <<caption, words, w_idx, lines, current_line, wrapped_text,
                 safe_text, tpc>>

requestVars == <<req_kind, req_step, req_busy, disk, reads, uuid_next>>

vars == <<pipelineVars, captionVars, requestVars>>

\* no caption is being laid out
CaptionIdle ==
    /\ caption = <<>>
    /\ words = <<>>
    /\ w_idx = 0
    /\ lines = <<>>
    /\ current_line = <<>>
    /\ wrapped_text = <<>>
    /\ safe_text = <<>>
    /\ tpc = "idle"

\* no concurrent requests are being served
RequestsIdle ==
    /\ req_kind = <<>>
    /\ req_step = <<>>
    /\ req_busy = <<>>
    /\ disk = <<>>
    /\ reads = {}
    /\ uuid_next = 0

---------------------------------------------------------------------------
(* Bounds of the model *)

MaxSegments == 3        \* segments in one transcript
MaxDuration == 8        \* longest segment, seconds
MaxClipsArg == 2        \* max_clips ranges over 0..MaxClipsArg
SmallBudget == 8        \* a max_total_duration that forces a clamp
MaxFormFields == 2      \* clipOrder_ fields in one /combine request

(* Program constants *)

DurationFloor == 5              \* s["duration"] > 5
TranscribeShare == 40           \* transcription reports 0-40
ClipBase == 40                  \* clip generation reports 40-70
ClipShare == 30
ClipsDone == 70
DefaultMaxTotalDuration == 90   \* max_total_duration=90
ReelDone == 100

---------------------------------------------------------------------------
(* Text: a sequence of one-character strings *)

HIGHLIGHT_KEYWORDS ==
    << <<"i","m","p","o","r","t","a","n","t">>,
       <<"w","o","w">>,
       <<"a","m","a","z","i","n","g">>,
       <<"n","o","t","e">>,
       <<"k","e","y">>,
       <<"a","t","t","e","n","t","i","o","n">>,
       <<"h","i","g","h","l","i","g","h","t">> >>

\* str.lower() on the letters the model's texts use
Lower(c) ==
    CASE c = "W" -> "w"
      [] c = "K" -> "k"
      [] c = "N" -> "n"
      [] OTHER -> c

LowerText(t) == [i \in 1..Len(t) |-> Lower(t[i])]

RECURSIVE LStrip(_)
LStrip(t) == IF t # <<>> /\ Head(t) = " " THEN LStrip(Tail(t)) ELSE t

RECURSIVE RStrip(_)
RStrip(t) ==
    IF t # <<>> /\ t[Len(t)] = " " THEN RStrip(SubSeq(t, 1, Len(t) - 1)) ELSE t

\* str.strip()
Strip(t) == RStrip(LStrip(t))

\* kw in text
Contains(t, kw) ==
    \E i \in 1..(Len(t) - Len(kw) + 1) : SubSeq(t, i, i + Len(kw) - 1) = kw

\* sum(1 for kw in HIGHLIGHT_KEYWORDS if kw.lower() in text.lower())
KeywordCount(t) ==
    Cardinality({k \in 1..Len(HIGHLIGHT_KEYWORDS) :
                    Contains(LowerText(t), LowerText(HIGHLIGHT_KEYWORDS[k]))})

\* utterances the speech recogniser may produce: no keyword, one keyword
Texts == { <<"o","k">>, <<" ","W","o","w"," ">> }

\* an utterance that is empty once stripped
BlankText == <<" ">>

---------------------------------------------------------------------------
(* Progress values: exact fractions *)

Frac(n, d) == [num |-> n, den |-> d]
Whole(n) == Frac(n, 1)
FracLeq(a, b) == a.num * b.den <= b.num * a.den
FracMin(a, b) == IF FracLeq(a, b) THEN a ELSE b

\* the run is given a progress callback
progress_callback == TRUE

\* progress_callback(p) guarded by "if progress_callback"
Report(p) == IF progress_callback THEN Append(progress, p) ELSE progress

---------------------------------------------------------------------------
(* Inputs *)

\* segment lengths: at the floor, just above it, long
Durations == {DurationFloor, DurationFloor + 1, MaxDuration}

\* a spoken segment of any length, or a blank one of floor length
RawChoices ==
    [dur : Durations, text : Texts] \cup [dur : {DurationFloor}, text : {BlankText}]

RECURSIVE SumDur(_)
SumDur(ch) == IF ch = <<>> THEN 0 ELSE ch[Len(ch)].dur + SumDur(SubSeq(ch, 1, Len(ch) - 1))

\* chronological, non-overlapping (start, end, text) tuples starting at 0
Timeline(ch) ==
    [i \in 1..Len(ch) |->
        [start |-> SumDur(SubSeq(ch, 1, i - 1)),
         end   |-> SumDur(SubSeq(ch, 1, i)),
         text  |-> ch[i].text]]

Budgets == {0, SmallBudget, DefaultMaxTotalDuration}

\* the names uuid.uuid4() hands out, in the order drawn
UuidPool == <<"u1.mp4", "u2.mp4", "u3.mp4", "u4.mp4", "u5.mp4", "u6.mp4">>

Init ==
    /\ \E n \in 0..MaxSegments : \E ch \in [1..n -> RawChoices] :
          asr_segments = Timeline(ch)
    /\ max_clips \in 0..MaxClipsArg
    /\ max_total_duration \in Budgets
    /\ pc = "transcribe"
    /\ t_idx = 0
    /\ segment_list = <<>>
    /\ highlights = <<>>
    /\ idx = 0
    /\ clip_files = <<>>
    /\ total_duration = 0
    /\ uuid_count = 0
    /\ ffmpeg_calls = <<>>
    /\ files = {}
    /\ progress = <<>>
    /\ ordered_clips = <<>>
    /\ card = 0
    /\ result = "unset"
    /\ raised = "none"
    /\ CaptionIdle
    /\ RequestsIdle

---------------------------------------------------------------------------
(* transcribe *)

\* min(40, idx / total_segments * 40)
TranscribeProgress(i, total) ==
    FracMin(Whole(TranscribeShare), Frac(i * TranscribeShare, total))

\* the dict appended to segment_list
Scored(seg, text) ==
    [start    |-> seg.start,
     end      |-> seg.end,
     text     |-> text,
     duration |-> seg.end - seg.start,
     keywords |-> KeywordCount(text)]

\* one iteration of "for idx, seg in enumerate(segments, start=1)"
TranscribeSegment ==
    /\ pc = "transcribe"
    /\ t_idx < Len(asr_segments)
    /\ LET i    == t_idx + 1
           seg  == asr_segments[i]
           text == Strip(seg.text)
       IN /\ t_idx' = i
          /\ segment_list' = IF text # <<>>
                             THEN Append(segment_list, Scored(seg, text))
                             ELSE segment_list
          /\ progress' = Report(TranscribeProgress(i, Len(asr_segments)))
    /\ UNCHANGED <<captionVars, requestVars, asr_segments, max_clips, max_total_duration,
                   pc, highlights, idx, clip_files,
                   total_duration, uuid_count, ffmpeg_calls, files,
                   ordered_clips, card, result, raised>>

---------------------------------------------------------------------------
(* generate_highlight_clips: selection *)

\* variant: the floor itself passes the filter
HighlightWorthy_AtFloor(s) == s.duration >= DurationFloor

\* s["duration"] > 5
HighlightWorthy(s) == s.duration > DurationFloor

\* key=lambda x: (x["keywords"], x["duration"]), compared as tuples
KeyLess(a, b) ==
    \/ a.keywords < b.keywords
    \/ a.keywords = b.keywords /\ a.duration < b.duration

\* variant: x goes in front of the elements whose key equals its own
InsertDesc_BeforeEquals(sorted, x) ==
    LET k == Cardinality({j \in 1..Len(sorted) : KeyLess(x, sorted[j])})
    IN SubSeq(sorted, 1, k) \o <<x>> \o SubSeq(sorted, k + 1, Len(sorted))

\* x goes behind every element whose key is not smaller than its own
InsertDesc(sorted, x) ==
    LET k == Cardinality({j \in 1..Len(sorted) : ~KeyLess(sorted[j], x)})
    IN SubSeq(sorted, 1, k) \o <<x>> \o SubSeq(sorted, k + 1, Len(sorted))

\* sorted(..., key=..., reverse=True): descending, equal keys keep input order
RECURSIVE SortedDesc(_)
SortedDesc(s) ==
    IF s = <<>> THEN <<>>
    ELSE InsertDesc(SortedDesc(SubSeq(s, 1, Len(s) - 1)), s[Len(s)])

Filter(s) == SelectSeq(s, HighlightWorthy)

\* highlights = sorted([s for s in segments if s["duration"] > 5], ...)
RankedHighlights(segs) == SortedDesc(Filter(segs))

\* transcribe returns; generate_highlight_clips sets up its loop
SelectHighlights ==
    /\ pc = "transcribe"
    /\ t_idx = Len(asr_segments)
    /\ highlights' = RankedHighlights(segment_list)
    /\ clip_files' = <<>>
    /\ total_duration' = 0
    /\ idx' = 0
    /\ pc' = "render"
    /\ UNCHANGED <<captionVars, requestVars, asr_segments, max_clips, max_total_duration,
                   t_idx, segment_list, uuid_count,
                   ffmpeg_calls, files, progress, ordered_clips, card,
                   result, raised>>

---------------------------------------------------------------------------
(* generate_highlight_clips: the render loop *)

\* variant: the clip count is compared with > instead of >=
BudgetExhausted_OffByOne(n_clips, total) ==
    n_clips > max_clips \/ total >= max_total_duration

\* len(clip_files) >= max_clips or total_duration >= max_total_duration
BudgetExhausted(n_clips, total) ==
    n_clips >= max_clips \/ total >= max_total_duration

\* variant: no clamp
ClipDuration_Unclamped(s, total) == s.end - s.start

\* variant: the clamp forgets what is already used
ClipDuration_WholeBudget(s, total) ==
    IF total + (s.end - s.start) > max_total_duration
    THEN max_total_duration
    ELSE s.end - s.start

\* clip_duration after the clamp of the last clip
ClipDuration(s, total) ==
    IF total + (s.end - s.start) > max_total_duration
    THEN max_total_duration - total
    ELSE s.end - s.start

\* end after the clamp
ClipEnd(s, total) ==
    IF total + (s.end - s.start) > max_total_duration
    THEN s.start + (max_total_duration - total)
    ELSE s.end

\* variant: the phase offset is left out
ClipProgress_NoBase(i, total) == Frac(i * ClipShare, total)

\* 40 + idx / total_highlights * 30
ClipProgress(i, total) == Frac(ClipBase * total + i * ClipShare, total)

\* ffmpeg.input(video_path, ss=start, t=clip_duration) ... .run(...)
ClipCall(s, total, name, ok) ==
    [kind   |-> "clip",
     ss     |-> s.start,
     t      |-> ClipDuration(s, total),
     end    |-> ClipEnd(s, total),
     out    |-> name,
     inputs |-> <<>>,
     parts  |-> <<>>,
     n      |-> 0,
     ok     |-> ok]

LoopContinues ==
    /\ pc = "render"
    /\ idx < Len(highlights)
    /\ ~BudgetExhausted(Len(clip_files), total_duration)

\* an iteration whose stream.run succeeds
RenderClipSuccess ==
    /\ LoopContinues
    /\ LET s    == highlights[idx + 1]
           name == UuidPool[uuid_count + 1]
       IN /\ ffmpeg_calls' = Append(ffmpeg_calls, ClipCall(s, total_duration, name, TRUE))
          /\ files' = files \cup {name}
          /\ clip_files' = Append(clip_files, name)
          /\ total_duration' = total_duration + ClipDuration(s, total_duration)
          /\ progress' = IF Len(highlights) # 0
                         THEN Report(ClipProgress(idx, Len(highlights)))
                         ELSE progress
    /\ uuid_count' = uuid_count + 1
    /\ idx' = idx + 1
    /\ UNCHANGED <<captionVars, requestVars, asr_segments, max_clips, max_total_duration,
                   pc, t_idx, segment_list, highlights,
                   ordered_clips, card, result, raised>>

\* variant: the encoder error leaves the function
RenderClipError_Raises ==
    /\ LoopContinues
    /\ LET s    == highlights[idx + 1]
           name == UuidPool[uuid_count + 1]
       IN ffmpeg_calls' = Append(ffmpeg_calls, ClipCall(s, total_duration, name, FALSE))
    /\ uuid_count' = uuid_count + 1
    /\ idx' = idx + 1
    /\ raised' = "ffmpeg.Error"
    /\ pc' = "raised"
    /\ UNCHANGED <<captionVars, requestVars, asr_segments, max_clips, max_total_duration,
                   t_idx, segment_list, highlights,
                   clip_files, total_duration, files, progress,
                   ordered_clips, card, result>>

\* an iteration whose stream.run raises ffmpeg.Error: printed, not re-raised
RenderClipError ==
    /\ LoopContinues
    /\ LET s    == highlights[idx + 1]
           name == UuidPool[uuid_count + 1]
       IN ffmpeg_calls' = Append(ffmpeg_calls, ClipCall(s, total_duration, name, FALSE))
    /\ uuid_count' = uuid_count + 1
    /\ idx' = idx + 1
    /\ UNCHANGED <<captionVars, requestVars, asr_segments, max_clips, max_total_duration,
                   pc, t_idx, segment_list, highlights,
                   clip_files, total_duration, files, progress,
                   ordered_clips, card, result, raised>>

\* the loop ends (exhausted or break); progress 70; return clip_files
GenerateReturn ==
    /\ pc = "render"
    /\ \/ idx = Len(highlights)
       \/ BudgetExhausted(Len(clip_files), total_duration)
    /\ progress' = Report(Whole(ClipsDone))
    /\ pc' = "route"
    /\ UNCHANGED <<captionVars, requestVars, asr_segments, max_clips, max_total_duration,
                   t_idx, segment_list, highlights, idx,
                   clip_files, total_duration, uuid_count, ffmpeg_calls,
                   files, ordered_clips, card, result, raised>>

---------------------------------------------------------------------------
(* combine_clips_route *)

\* a name the caller may post that no render produced and no file carries
GhostName == "ghost.mp4"

\* the names a /combine request may carry in its clipOrder_ fields: the
\* clips of the page, anything else in the clips folder, a name of nothing
CallerNames ==
    {clip_files[i] : i \in 1..Len(clip_files)} \cup files \cup {GhostName}

\* the clipOrder_<name>=<int> fields of one request, in form order; a dict
\* has each key once
Forms ==
    UNION {{f \in [1..k -> [name : CallerNames, order : 1..MaxFormFields]] :
               \A i, j \in 1..k : i # j => f[i].name # f[j].name} :
           k \in 0..MaxFormFields}

\* x goes behind every element whose order is not larger than its own
InsertAsc(sorted, x) ==
    LET k == Cardinality({j \in 1..Len(sorted) : sorted[j].order <= x.order})
    IN SubSeq(sorted, 1, k) \o <<x>> \o SubSeq(sorted, k + 1, Len(sorted))

RECURSIVE SortedAsc(_)
SortedAsc(s) ==
    IF s = <<>> THEN <<>>
    ELSE InsertAsc(SortedAsc(SubSeq(s, 1, Len(s) - 1)), s[Len(s)])

\* sorted(clip_orders.keys(), key=lambda x: clip_orders[x])
OrderedClips(form) ==
    LET sorted == SortedAsc(form) IN [i \in 1..Len(sorted) |-> sorted[i].name]

\* the request handler up to its call of combine_clips_into_reel
CombineClipsRoute ==
    /\ pc = "route"
    /\ \E form \in Forms : ordered_clips' = OrderedClips(form)
    /\ card' = 0
    /\ pc' = "combine"
    /\ UNCHANGED <<captionVars, requestVars, asr_segments, max_clips, max_total_duration,
                   t_idx, segment_list, highlights, idx,
                   clip_files, total_duration, uuid_count, ffmpeg_calls,
                   files, progress, result, raised>>

---------------------------------------------------------------------------
(* combine_clips_into_reel *)

OutputFile == "highlight_reel.mp4"
IntroPath == "intro.mp4"
OutroPath == "outro.mp4"

\* the two iterations of the card loop: path and int(step*100)
CardPaths == <<IntroPath, OutroPath>>
CardSteps == <<71, 72>>

\* names in alphabetical order
NameOrder == <<GhostName, OutputFile, IntroPath, OutroPath>> \o UuidPool
NameRank(name) == CHOOSE i \in 1..Len(NameOrder) : NameOrder[i] = name

\* variant: the clips are re-sorted by file name
AllFiles_SortedByName(clips) ==
    LET pos(i) == 1 + Cardinality({j \in 1..Len(clips) :
                                      NameRank(clips[j]) < NameRank(clips[i])})
        at(k)  == CHOOSE i \in 1..Len(clips) : pos(i) = k
    IN <<IntroPath>> \o [k \in 1..Len(clips) |-> clips[at(k)]] \o <<OutroPath>>

\* [intro_path] + [join(clips_folder, f) for f in clip_files] + [outro_path]
AllFiles(clips) == <<IntroPath>> \o clips \o <<OutroPath>>

\* filter_parts: "[idx:v:0][idx:a:0]" for idx, file in enumerate(all_files)
FilterParts(all_files) ==
    [i \in 1..Len(all_files) |-> [v |-> i - 1, a |-> i - 1]]

\* subprocess.run(cmd, check=True, ...) for one card
CardCall(k, ok) ==
    [kind   |-> "card",
     ss     |-> 0,
     t      |-> 3,
     end    |-> 3,
     out    |-> CardPaths[k],
     inputs |-> <<>>,
     parts  |-> <<>>,
     n      |-> 0,
     ok     |-> ok]

\* subprocess.run(concat_cmd, check=True, ...)
ConcatCall(all_files, ok) ==
    [kind   |-> "concat",
     ss     |-> 0,
     t      |-> 0,
     end    |-> 0,
     out    |-> OutputFile,
     inputs |-> all_files,
     parts  |-> FilterParts(all_files),
     n      |-> Len(all_files),
     ok     |-> ok]

\* variant: an empty clip list is an error
CombineEmpty_Raises ==
    /\ pc = "combine"
    /\ ordered_clips = <<>>
    /\ raised' = "ValueError"
    /\ pc' = "raised"
    /\ UNCHANGED <<captionVars, requestVars, asr_segments, max_clips, max_total_duration,
                   t_idx, segment_list, highlights, idx,
                   clip_files, total_duration, uuid_count, ffmpeg_calls,
                   files, progress, ordered_clips, card, result>>

\* "if not clip_files: return None"
CombineEmpty ==
    /\ pc = "combine"
    /\ ordered_clips = <<>>
    /\ result' = "None"
    /\ pc' = "done"
    /\ UNCHANGED <<captionVars, requestVars, asr_segments, max_clips, max_total_duration,
                   t_idx, segment_list, highlights, idx,
                   clip_files, total_duration, uuid_count, ffmpeg_calls,
                   files, progress, ordered_clips, card, raised>>

InCardLoop ==
    /\ pc = "combine"
    /\ ordered_clips # <<>>
    /\ card < Len(CardPaths)

\* a card whose encoder run exits 0
MakeCardSuccess ==
    /\ InCardLoop
    /\ ffmpeg_calls' = Append(ffmpeg_calls, CardCall(card + 1, TRUE))
    /\ files' = files \cup {CardPaths[card + 1]}
    /\ progress' = Report(Whole(CardSteps[card + 1]))
    /\ card' = card + 1
    /\ UNCHANGED <<captionVars, requestVars, asr_segments, max_clips, max_total_duration,
                   pc, t_idx, segment_list, highlights,
                   idx, clip_files, total_duration, uuid_count,
                   ordered_clips, result, raised>>

\* variant: the card failure is printed and the loop goes on
MakeCardError_Swallowed ==
    /\ InCardLoop
    /\ ffmpeg_calls' = Append(ffmpeg_calls, CardCall(card + 1, FALSE))
    /\ progress' = Report(Whole(CardSteps[card + 1]))
    /\ card' = card + 1
    /\ UNCHANGED <<captionVars, requestVars, asr_segments, max_clips, max_total_duration, pc,
                   t_idx, segment_list, highlights, idx, clip_files,
                   total_duration, uuid_count, files, ordered_clips,
                   result, raised>>

\* a card whose encoder run fails: CalledProcessError is re-raised
MakeCardError ==
    /\ InCardLoop
    /\ ffmpeg_calls' = Append(ffmpeg_calls, CardCall(card + 1, FALSE))
    /\ raised' = "CalledProcessError"
    /\ pc' = "raised"
    /\ UNCHANGED <<captionVars, requestVars, asr_segments, max_clips, max_total_duration,
                   t_idx, segment_list, highlights, idx,
                   clip_files, total_duration, uuid_count, files, progress,
                   ordered_clips, card, result>>

AtConcat ==
    /\ pc = "combine"
    /\ ordered_clips # <<>>
    /\ card = Len(CardPaths)

\* os.path.exists(file) for every file of all_files
AllExist(all_files) == \A i \in 1..Len(all_files) : all_files[i] \in files

\* the existence loop meets a missing file: FileNotFoundError
ConcatMissingInput ==
    /\ AtConcat
    /\ ~AllExist(AllFiles(ordered_clips))
    /\ raised' = "FileNotFoundError"
    /\ pc' = "raised"
    /\ UNCHANGED <<captionVars, requestVars, asr_segments, max_clips, max_total_duration,
                   t_idx, segment_list, highlights, idx,
                   clip_files, total_duration, uuid_count, ffmpeg_calls,
                   files, progress, ordered_clips, card, result>>

\* the concatenation run exits 0: progress 100, return output_file
ConcatSuccess ==
    /\ AtConcat
    /\ AllExist(AllFiles(ordered_clips))
    /\ ffmpeg_calls' = Append(ffmpeg_calls, ConcatCall(AllFiles(ordered_clips), TRUE))
    /\ files' = files \cup {OutputFile}
    /\ progress' = Report(Whole(ReelDone))
    /\ result' = OutputFile
    /\ pc' = "done"
    /\ UNCHANGED <<captionVars, requestVars, asr_segments, max_clips, max_total_duration,
                   t_idx, segment_list, highlights, idx,
                   clip_files, total_duration, uuid_count, ordered_clips,
                   card, raised>>

\* the concatenation run fails: CalledProcessError is re-raised
ConcatError ==
    /\ AtConcat
    /\ AllExist(AllFiles(ordered_clips))
    /\ ffmpeg_calls' = Append(ffmpeg_calls, ConcatCall(AllFiles(ordered_clips), FALSE))
    /\ raised' = "CalledProcessError"
    /\ pc' = "raised"
    /\ UNCHANGED <<captionVars, requestVars, asr_segments, max_clips, max_total_duration,
                   t_idx, segment_list, highlights, idx,
                   clip_files, total_duration, uuid_count, files, progress,
                   ordered_clips, card, result>>

---------------------------------------------------------------------------

Next ==
    \/ TranscribeSegment
    \/ SelectHighlights
    \/ RenderClipSuccess
    \/ RenderClipError
    \/ GenerateReturn
    \/ CombineClipsRoute
    \/ CombineEmpty
    \/ MakeCardSuccess
    \/ MakeCardError
    \/ ConcatMissingInput
    \/ ConcatSuccess
    \/ ConcatError

Spec == Init /\ [][Next]_vars

---------------------------------------------------------------------------
(* A /combine request on a clips folder that earlier requests filled *)

\* what an earlier assembly left in the clips folder
StaleFiles == {IntroPath, OutroPath, OutputFile}

\* an earlier upload returned up to MaxClipsArg clips; an earlier assembly
\* may have run
InitReel ==
    /\ CaptionIdle
    /\ RequestsIdle
    /\ asr_segments = <<>>
    /\ max_clips = MaxClipsArg
    /\ max_total_duration = DefaultMaxTotalDuration
    /\ pc = "route"
    /\ t_idx = 0
    /\ segment_list = <<>>
    /\ highlights = <<>>
    /\ idx = 0
    /\ \E n \in 0..MaxClipsArg : clip_files = SubSeq(UuidPool, 1, n)
    /\ total_duration = 0
    /\ uuid_count = Len(clip_files)
    /\ ffmpeg_calls = <<>>
    /\ \E stale \in {{}, StaleFiles} :
          files = {clip_files[i] : i \in 1..Len(clip_files)} \cup stale
    /\ progress = <<>>
    /\ ordered_clips = <<>>
    /\ card = 0
    /\ result = "unset"
    /\ raised = "none"

NextReel ==
    \/ CombineClipsRoute
    \/ CombineEmpty
    \/ MakeCardSuccess
    \/ MakeCardError
    \/ ConcatMissingInput
    \/ ConcatSuccess
    \/ ConcatError

SpecReel == InitReel /\ [][NextReel]_vars

---------------------------------------------------------------------------
(* generate_highlight_clips: caption layout of one render *)

MaxWords == 3           \* words in a caption to wrap
MaxEscapeLen == 2       \* characters in a text to escape

LineWidth == 60         \* "Wrap text at 60 chars"

Rep(c, n) == [i \in 1..n |-> c]

\* words that fill half a line less one, half a line, more than a line
WordPool ==
    { <<"h", "i">>,
      Rep("a", (LineWidth \div 2) - 1),
      Rep("b", LineWidth \div 2),
      Rep("c", LineWidth + 1) }

\* characters of the overlay-filter syntax, and a plain one
EscapeAlphabet == {"a", "'", ":", ",", "\\", "[", "]", "="}

\* whitespace for str.split()
IsSpace(c) == c \in {" ", "\n"}

\* last index of the word that starts t
WordEnd(t) ==
    IF \E i \in 1..Len(t) : IsSpace(t[i])
    THEN (CHOOSE i \in 1..Len(t) :
             IsSpace(t[i]) /\ \A j \in 1..(i - 1) : ~IsSpace(t[j])) - 1
    ELSE Len(t)

\* text.split()
RECURSIVE Split(_)
Split(t) ==
    IF t = <<>> THEN <<>>
    ELSE IF IsSpace(Head(t)) THEN Split(Tail(t))
    ELSE <<SubSeq(t, 1, WordEnd(t))>> \o Split(SubSeq(t, WordEnd(t) + 1, Len(t)))

\* sep.join(ws)
RECURSIVE Join(_, _)
Join(ws, sep) ==
    IF ws = <<>> THEN <<>>
    ELSE IF Len(ws) = 1 THEN ws[1]
    ELSE ws[1] \o sep \o Join(Tail(ws), sep)

\* sum(len(w) for w in ws)
RECURSIVE SumLen(_)
SumLen(ws) == IF ws = <<>> THEN 0 ELSE Len(Head(ws)) + SumLen(Tail(ws))

\* variant: the spaces between the words are not counted
Fits_NoSpaces(cur, word) == SumLen(cur) + Len(word) <= LineWidth

\* sum(len(w) for w in current_line) + len(current_line) + len(word) <= 60
Fits(cur, word) == SumLen(cur) + Len(cur) + Len(word) <= LineWidth

\* t.replace(c, r)
RECURSIVE ReplaceChar(_, _, _)
ReplaceChar(t, c, r) ==
    IF \A i \in 1..Len(t) : t[i] # c THEN t
    ELSE LET first == CHOOSE i \in 1..Len(t) :
                         t[i] = c /\ \A j \in 1..(i - 1) : t[j] # c
         IN SubSeq(t, 1, first - 1) \o r \o ReplaceChar(SubSeq(t, first + 1, Len(t)), c, r)

\* .replace("'", "").replace(":", "\\:").replace(",", "\\,")
Escape(t) ==
    ReplaceChar(ReplaceChar(ReplaceChar(t, "'", <<>>), ":", <<"\\", ":">>),
                ",", <<"\\", ",">>)

\* captions of up to MaxWords pool words, single-spaced
WrapTexts ==
    UNION {{Join(ws, <<" ">>) : ws \in [1..n -> WordPool]} : n \in 0..MaxWords}

\* short texts over the filter-syntax characters
EscapeTexts == UNION {[1..n -> EscapeAlphabet] : n \in 0..MaxEscapeLen}

\* the pipeline is not running
PipelineIdle ==
    /\ asr_segments = <<>>
    /\ max_clips = 0
    /\ max_total_duration = 0
    /\ pc = "idle"
    /\ t_idx = 0
    /\ segment_list = <<>>
    /\ highlights = <<>>
    /\ idx = 0
    /\ clip_files = <<>>
    /\ total_duration = 0
    /\ uuid_count = 0
    /\ ffmpeg_calls = <<>>
    /\ files = {}
    /\ progress = <<>>
    /\ ordered_clips = <<>>
    /\ card = 0
    /\ result = "unset"
    /\ raised = "none"

InitCaption ==
    /\ PipelineIdle
    /\ RequestsIdle
    /\ caption \in WrapTexts \cup EscapeTexts
    /\ words = <<>>
    /\ w_idx = 0
    /\ lines = <<>>
    /\ current_line = <<>>
    /\ wrapped_text = <<>>
    /\ safe_text = <<>>
    /\ tpc = "split"

\* words, lines, current_line = text.split(), [], []
SplitCaption ==
    /\ tpc = "split"
    /\ words' = Split(caption)
    /\ lines' = <<>>
    /\ current_line' = <<>>
    /\ w_idx' = 0
    /\ tpc' = "wrap"
    /\ UNCHANGED <<pipelineVars, requestVars, caption, wrapped_text, safe_text>>

\* a loop iteration whose word still fits the current line
WrapWordFits ==
    /\ tpc = "wrap"
    /\ w_idx < Len(words)
    /\ Fits(current_line, words[w_idx + 1])
    /\ current_line' = Append(current_line, words[w_idx + 1])
    /\ w_idx' = w_idx + 1
    /\ UNCHANGED <<pipelineVars, requestVars, caption, words, lines,
                   wrapped_text, safe_text, tpc>>

\* a loop iteration whose word overflows: the line is closed, the word
\* starts the next
WrapWordOverflow ==
    /\ tpc = "wrap"
    /\ w_idx < Len(words)
    /\ ~Fits(current_line, words[w_idx + 1])
    /\ lines' = Append(lines, Join(current_line, <<" ">>))
    /\ current_line' = <<words[w_idx + 1]>>
    /\ w_idx' = w_idx + 1
    /\ UNCHANGED <<pipelineVars, requestVars, caption, words, wrapped_text,
                   safe_text, tpc>>

\* after the loop: the open line is closed, the lines are joined
WrapFlush ==
    /\ tpc = "wrap"
    /\ w_idx = Len(words)
    /\ lines' = IF current_line # <<>>
                THEN Append(lines, Join(current_line, <<" ">>))
                ELSE lines
    /\ wrapped_text' = Join(lines', <<"\n">>)
    /\ tpc' = "escape"
    /\ UNCHANGED <<pipelineVars, requestVars, caption, words, w_idx,
                   current_line, safe_text>>

\* safe_text = wrapped_text.replace(...)...
EscapeCaption ==
    /\ tpc = "escape"
    /\ safe_text' = Escape(wrapped_text)
    /\ tpc' = "escaped"
    /\ UNCHANGED <<pipelineVars, requestVars, caption, words, w_idx, lines,
                   current_line, wrapped_text>>

NextCaption ==
    \/ SplitCaption
    \/ WrapWordFits
    \/ WrapWordOverflow
    \/ WrapFlush
    \/ EscapeCaption

SpecCaption == InitCaption /\ [][NextCaption]_vars

---------------------------------------------------------------------------
(* Two requests served at once: their file reads and writes.  A write
   begins when its producer starts and ends when the producer exits. *)

Requests == {1, 2}

AudioPath == "uploads/audio.wav"
UploadNames == {"uploads/a.mp4", "uploads/b.mp4"}
EarlierClip == "clips/c1.mp4"
ClipsIntro == "clips/intro.mp4"
ClipsOutro == "clips/outro.mp4"
ClipsReel == "clips/highlight_reel.mp4"
UuidPaths == <<"clips/u1.mp4", "clips/u2.mp4">>

Paths ==
    UploadNames \cup {AudioPath, EarlierClip, ClipsIntro, ClipsOutro, ClipsReel}
        \cup {UuidPaths[i] : i \in 1..Len(UuidPaths)}

\* the clip, card and reel files
ProducedPaths ==
    {ClipsIntro, ClipsOutro, ClipsReel} \cup {UuidPaths[i] : i \in 1..Len(UuidPaths)}

\* POST /upload with a file name, POST /combine with a clip order
RequestKinds ==
    [route : {"upload"}, filename : UploadNames, clips : {<<>>}]
        \cup [route : {"combine"}, filename : {""}, clips : {<<EarlierClip>>, <<UuidPaths[1]>>}]

FileOp(act, path, inputs, fatal) ==
    [act |-> act, path |-> path, inputs |-> inputs, fatal |-> fatal]

\* upload_video: file.save, audio extraction (exit status ignored),
\* transcribe, one clip render (failure caught)
UploadProgram(k) ==
    << FileOp("write", k.filename, {}, FALSE),
       FileOp("write", AudioPath, {k.filename}, FALSE),
       FileOp("read", "", {AudioPath}, FALSE),
       FileOp("render", "", {k.filename}, FALSE) >>

\* combine_clips_into_reel: intro card, outro card, existence check,
\* concatenation (each encoder failure re-raised)
CombineProgram(k) ==
    LET all_files == {ClipsIntro, ClipsOutro} \cup {k.clips[i] : i \in 1..Len(k.clips)}
    IN << FileOp("write", ClipsIntro, {}, TRUE),
          FileOp("write", ClipsOutro, {}, TRUE),
          FileOp("check", "", all_files, TRUE),
          FileOp("write", ClipsReel, all_files, TRUE) >>

Program(r) ==
    IF req_kind[r].route = "upload"
    THEN UploadProgram(req_kind[r])
    ELSE CombineProgram(req_kind[r])

\* the request raised
RaisedStep == 0 - 1

NotWriting == "-"

AbsentFile == [status |-> "absent", writers |-> {}, wrote |-> {}, last |-> 0]

InitRequests ==
    /\ PipelineIdle
    /\ CaptionIdle
    /\ req_kind \in [Requests -> RequestKinds]
    /\ req_step = [r \in Requests |-> 0]
    /\ req_busy = [r \in Requests |-> NotWriting]
    /\ disk = [p \in Paths |->
                 IF p = EarlierClip
                 THEN [status |-> "ok", writers |-> {}, wrote |-> {}, last |-> 0]
                 ELSE AbsentFile]
    /\ reads = {}
    /\ uuid_next = 0

\* request r is about to start its next file operation
Ready(r) ==
    /\ req_busy[r] = NotWriting
    /\ req_step[r] >= 0
    /\ req_step[r] < Len(Program(r))

NextOp(r) == Program(r)[req_step[r] + 1]

\* what r sees of the files it opens for reading
ReadEvents(r, inputs) ==
    {[run            |-> r,
      path           |-> p,
      while_written  |-> disk[p].writers \ {r} # {},
      after_failed   |-> disk[p].status = "failed" /\ disk[p].last # r] : p \in inputs}

\* the path the operation writes: a fresh uuid name for a clip render
WritePath(r, op) ==
    IF op.act = "render" THEN UuidPaths[uuid_next + 1] ELSE op.path

\* a producer starts: it opens its inputs and its output (-y: overwrite)
BeginWrite(r) ==
    /\ Ready(r)
    /\ NextOp(r).act \in {"write", "render"}
    /\ LET op == NextOp(r)
           p  == WritePath(r, op)
       IN /\ disk' = [disk EXCEPT ![p] =
                        [status  |-> "writing",
                         writers |-> @.writers \cup {r},
                         wrote   |-> @.wrote \cup {r},
                         last    |-> r]]
          /\ reads' = reads \cup ReadEvents(r, op.inputs)
          /\ req_busy' = [req_busy EXCEPT ![r] = p]
          /\ uuid_next' = IF op.act = "render" THEN uuid_next + 1 ELSE uuid_next
    /\ UNCHANGED <<pipelineVars, captionVars, req_kind, req_step>>

\* the producer exits 0
EndWriteSuccess(r) ==
    /\ req_busy[r] # NotWriting
    /\ LET p == req_busy[r]
       IN disk' = [disk EXCEPT ![p] =
                     [@ EXCEPT !.writers = @ \ {r},
                               !.status = IF disk[p].writers \ {r} # {}
                                          THEN "writing" ELSE "ok"]]
    /\ req_busy' = [req_busy EXCEPT ![r] = NotWriting]
    /\ req_step' = [req_step EXCEPT ![r] = @ + 1]
    /\ UNCHANGED <<pipelineVars, captionVars, req_kind, reads, uuid_next>>

\* the producer fails: re-raised for cards and concatenation, passed over
\* for the audio extraction and a clip render
EndWriteFailure(r) ==
    /\ req_busy[r] # NotWriting
    /\ NextOp(r).path # req_kind[r].filename
    /\ LET p == req_busy[r]
       IN disk' = [disk EXCEPT ![p] =
                     [@ EXCEPT !.writers = @ \ {r},
                               !.status = IF disk[p].writers \ {r} # {}
                                          THEN "writing" ELSE "failed"]]
    /\ req_busy' = [req_busy EXCEPT ![r] = NotWriting]
    /\ req_step' = [req_step EXCEPT ![r] =
                       IF NextOp(r).fatal THEN RaisedStep ELSE @ + 1]
    /\ UNCHANGED <<pipelineVars, captionVars, req_kind, reads, uuid_next>>

\* transcribe reads the extracted audio
ReadInputs(r) ==
    /\ Ready(r)
    /\ NextOp(r).act = "read"
    /\ reads' = reads \cup ReadEvents(r, NextOp(r).inputs)
    /\ req_step' = [req_step EXCEPT ![r] = @ + 1]
    /\ UNCHANGED <<pipelineVars, captionVars, req_kind, req_busy, disk, uuid_next>>

\* os.path.exists holds for every file to concatenate
CheckInputsPresent(r) ==
    /\ Ready(r)
    /\ NextOp(r).act = "check"
    /\ \A p \in NextOp(r).inputs : disk[p].status # "absent"
    /\ req_step' = [req_step EXCEPT ![r] = @ + 1]
    /\ UNCHANGED <<pipelineVars, captionVars, req_kind, req_busy, disk, reads,
                   uuid_next>>

\* os.path.exists fails for one: FileNotFoundError
CheckInputsMissing(r) ==
    /\ Ready(r)
    /\ NextOp(r).act = "check"
    /\ \E p \in NextOp(r).inputs : disk[p].status = "absent"
    /\ req_step' = [req_step EXCEPT ![r] = RaisedStep]
    /\ UNCHANGED <<pipelineVars, captionVars, req_kind, req_busy, disk, reads,
                   uuid_next>>

NextRequests ==
    \E r \in Requests :
        \/ BeginWrite(r)
        \/ EndWriteSuccess(r)
        \/ EndWriteFailure(r)
        \/ ReadInputs(r)
        \/ CheckInputsPresent(r)
        \/ CheckInputsMissing(r)

SpecRequests == InitRequests /\ [][NextRequests]_vars

---------------------------------------------------------------------------
(* Vocabulary of the properties *)

IsClipCall(c) == c.kind = "clip"
IsOkCall(c) == c.ok

\* the per-clip encoder invocations, in order
ClipCalls == SelectSeq(ffmpeg_calls, IsClipCall)

RECURSIVE SumT(_)
SumT(cs) == IF cs = <<>> THEN 0 ELSE cs[Len(cs)].t + SumT(SubSeq(cs, 1, Len(cs) - 1))

\* seconds of the successful invocations among cs
SumOkT(cs) == SumT(SelectSeq(cs, IsOkCall))

\* output names of the successful invocations among cs, in order
OkOuts(cs) == LET ok == SelectSeq(cs, IsOkCall) IN [i \in 1..Len(ok) |-> ok[i].out]

\* the invocation that wrote the returned clip called name
CallOf(name) == CHOOSE c \in {ClipCalls[i] : i \in 1..Len(ClipCalls)} : c.out = name

\* post-clamp durations of the clips returned so far
ReturnedSeconds ==
    SumT([i \in 1..Len(clip_files) |-> CallOf(clip_files[i])])

\* budget left when the j-th per-clip invocation was made
RemainingAt(j) == max_total_duration - SumOkT(SubSeq(ClipCalls, 1, j - 1))

\* the j-th per-clip invocation met a segment longer than the budget left
Clamped(j) == highlights[j].end - highlights[j].start > RemainingAt(j)

Selected == pc # "transcribe"
Generated == pc \notin {"transcribe", "render"}

---------------------------------------------------------------------------
(* C1: the post-clamp durations of the returned clips never sum to more
   than max_total_duration, after every loop iteration and at the end. *)
C1_TotalWithinBudget ==
    /\ ReturnedSeconds <= max_total_duration
    /\ total_duration = ReturnedSeconds

\* two clips returned, the second clamped, the budget used up exactly
C1_Witness ==
    /\ Generated
    /\ Len(clip_files) = 2
    /\ Clamped(Len(ClipCalls))
    /\ ReturnedSeconds = max_total_duration

(* C2: the number of returned clips never exceeds max_clips, in every loop
   state and at the end. *)
C2_CountWithinMaxClips == Len(clip_files) <= max_clips

\* the clip budget cut the loop short with a highlight left over, after a
\* failed render
C2_Witness ==
    /\ Generated
    /\ max_clips >= 1
    /\ Len(clip_files) = max_clips
    /\ idx < Len(highlights)
    /\ total_duration < max_total_duration
    /\ \E j \in 1..Len(ClipCalls) : ~ClipCalls[j].ok

(* C3: a segment of duration <= 5 is never handed to the encoder and never
   appears among the returned clips, whatever its keyword score. *)
C3_ShortSegmentsNeverSelected ==
    \A i \in 1..Len(segment_list) :
        segment_list[i].duration <= 5 =>
            /\ \A j \in 1..Len(ClipCalls) : ClipCalls[j].ss # segment_list[i].start
            /\ \A j \in 1..Len(highlights) : highlights[j].start # segment_list[i].start

\* a 5-second segment with a keyword was passed over while a longer segment
\* without any keyword was rendered
C3_Witness ==
    /\ Generated
    /\ \E i \in 1..Len(segment_list) :
          segment_list[i].duration = 5 /\ segment_list[i].keywords > 0
    /\ \E j \in 1..Len(ClipCalls) :
          ClipCalls[j].ok /\ highlights[j].keywords = 0

(* C4: a ranked segment reached within both budgets whose full duration
   exceeds the remaining budget is not skipped: the encoder is invoked for
   it with duration exactly the remaining budget and end = start + that
   duration, and if it is returned it is the last entry of the result. *)
C4_LastClipClamp ==
    /\ Selected => Len(ClipCalls) = idx
    /\ \A j \in 1..Len(ClipCalls) :
          /\ ClipCalls[j].ss = highlights[j].start
          /\ Clamped(j) =>
                /\ ClipCalls[j].t = RemainingAt(j)
                /\ ClipCalls[j].end = ClipCalls[j].ss + RemainingAt(j)
                /\ ClipCalls[j].ok =>
                      /\ clip_files # <<>>
                      /\ clip_files[Len(clip_files)] = ClipCalls[j].out

\* part of the budget was used, the next segment was clamped to what was
\* left, rendered, and ends the result
C4_Witness ==
    /\ Generated
    /\ \E j \in 2..Len(ClipCalls) :
          /\ Clamped(j)
          /\ ClipCalls[j].ok
          /\ RemainingAt(j) < max_total_duration
          /\ ClipCalls[j].t > 0
          /\ clip_files[Len(clip_files)] = ClipCalls[j].out

(* C5: an encoder failure for one highlight neither raises nor stops the
   loop: highlights are attempted in rank order, each at most once, the
   loop ends only when the list or a budget is exhausted, and the result is
   exactly the successful renders. *)
C5_FailureIsolation ==
    /\ raised # "none" => \E i \in 1..Len(ffmpeg_calls) : ~IsClipCall(ffmpeg_calls[i])
    /\ Selected => Len(ClipCalls) = idx
    /\ \A j \in 1..Len(ClipCalls) : ClipCalls[j].ss = highlights[j].start
    /\ \A i, j \in 1..Len(ClipCalls) : i # j => ClipCalls[i].ss # ClipCalls[j].ss
    /\ clip_files = OkOuts(ClipCalls)
    /\ Generated =>
          \/ idx = Len(highlights)
          \/ Len(clip_files) >= max_clips
          \/ total_duration >= max_total_duration

\* one failing invocation among three: the first render failed and the two
\* after it were rendered and returned
C5_Witness ==
    /\ Generated
    /\ Len(ClipCalls) = 3
    /\ ~ClipCalls[1].ok
    /\ ClipCalls[2].ok
    /\ ClipCalls[3].ok
    /\ Len(clip_files) = 2

(* C6: the encoder is invoked for at most max_clips segments, the durations
   passed to it sum to at most max_total_duration, and no segment is
   processed after a budget-clamped one, even when renders fail. *)
C6_SelectionFixedBeforeRendering ==
    /\ Len(ClipCalls) <= max_clips
    /\ SumT(ClipCalls) <= max_total_duration
    /\ \A j \in 1..Len(ClipCalls) : Clamped(j) => j = Len(ClipCalls)

(* C7: highlights are processed, and clips returned, by keyword score
   descending, then duration descending; segments equal in both keep their
   input order; every segment longer than the floor is ranked exactly once,
   so the ranked order is a function of the input alone. *)
C7_RankingStable ==
    Selected =>
        /\ Len(highlights) =
              Cardinality({i \in 1..Len(segment_list) : segment_list[i].duration > 5})
        /\ \A j \in 1..Len(highlights) :
              \E i \in 1..Len(segment_list) : segment_list[i] = highlights[j]
        /\ \A i, j \in 1..Len(highlights) :
              i < j =>
                 \/ highlights[i].keywords > highlights[j].keywords
                 \/ /\ highlights[i].keywords = highlights[j].keywords
                    /\ highlights[i].duration > highlights[j].duration
                 \/ /\ highlights[i].keywords = highlights[j].keywords
                    /\ highlights[i].duration = highlights[j].duration
                    /\ highlights[i].start < highlights[j].start
        /\ \A j \in 1..Len(ClipCalls) : ClipCalls[j].ss = highlights[j].start
        /\ clip_files = OkOuts(ClipCalls)

\* ranked, not chronological: the last segment of the input outranks two
\* earlier ones that tie with each other, and all three were rendered
C7_Witness ==
    /\ Generated
    /\ Len(highlights) = 3
    /\ highlights[1].start > highlights[3].start
    /\ highlights[2].keywords = highlights[3].keywords
    /\ highlights[2].duration = highlights[3].duration
    /\ Len(ClipCalls) = 3
    /\ Len(clip_files) >= 2

(* C8: over transcribe -> generate_highlight_clips ->
   combine_clips_into_reel with one callback, no reported value is lower
   than an earlier one and every value lies in 0..100. *)
C8_ProgressMonotonic ==
    /\ \A i, j \in 1..Len(progress) :
          i < j => progress[i].num * progress[j].den <= progress[j].num * progress[i].den
    /\ \A i \in 1..Len(progress) :
          /\ progress[i].den > 0
          /\ 0 <= progress[i].num
          /\ progress[i].num <= 100 * progress[i].den

\* a whole run with a failed render in it: every phase has reported
C8_Witness ==
    /\ pc = "done"
    /\ result = OutputFile
    /\ Len(asr_segments) = 3
    /\ Len(ClipCalls) = 3
    /\ \E j \in 1..Len(ClipCalls) : ~ClipCalls[j].ok
    /\ Len(progress) = 9

(* C9: the concatenation is given exactly the intro card, the caller's
   clips in the caller's order, and the outro card; n is len(clips) + 2 and
   every input contributes its video and its audio stream. *)
C9_ConcatInputOrder ==
    \A k \in 1..Len(ffmpeg_calls) :
        ffmpeg_calls[k].kind = "concat" =>
            LET c == ffmpeg_calls[k] IN
            /\ c.inputs = <<"intro.mp4">> \o ordered_clips \o <<"outro.mp4">>
            /\ c.n = Len(ordered_clips) + 2
            /\ Len(c.parts) = c.n
            /\ \A i \in 1..Len(c.parts) : c.parts[i] = [v |-> i - 1, a |-> i - 1]

\* the caller put the second-ranked clip first and the reel was made
C9_Witness ==
    /\ pc = "done"
    /\ result = OutputFile
    /\ Len(clip_files) = 2
    /\ ordered_clips = <<clip_files[2], clip_files[1]>>

(* C10: a reel name is returned only if the intro card, the outro card and
   the concatenation all succeeded; a failure of any of them is raised at
   once, is the last encoder invocation of the run, and progress 100 is
   never reported after it. *)
C10_FatalAssemblyFailures ==
    /\ result = OutputFile =>
          /\ \E k \in 1..Len(ffmpeg_calls) :
                ffmpeg_calls[k].out = "intro.mp4" /\ ffmpeg_calls[k].ok
          /\ \E k \in 1..Len(ffmpeg_calls) :
                ffmpeg_calls[k].out = "outro.mp4" /\ ffmpeg_calls[k].ok
          /\ \E k \in 1..Len(ffmpeg_calls) :
                ffmpeg_calls[k].kind = "concat" /\ ffmpeg_calls[k].ok
    /\ \A k \in 1..Len(ffmpeg_calls) :
          (ffmpeg_calls[k].kind # "clip" /\ ~ffmpeg_calls[k].ok) =>
              /\ k = Len(ffmpeg_calls)
              /\ pc = "raised"
              /\ raised = "CalledProcessError"
              /\ result = "unset"
              /\ \A i \in 1..Len(progress) : progress[i] # [num |-> 100, den |-> 1]
    /\ (\E i \in 1..Len(progress) : progress[i] = [num |-> 100, den |-> 1]) =>
          result = OutputFile

\* the intro card failed: raised, no outro card, no concatenation
C10_Witness ==
    /\ pc = "raised"
    /\ raised = "CalledProcessError"
    /\ ffmpeg_calls # <<>>
    /\ ffmpeg_calls[Len(ffmpeg_calls)].out = "intro.mp4"
    /\ ~ffmpeg_calls[Len(ffmpeg_calls)].ok

(* C11: if a file named in the ordered clip list is absent when
   combine_clips_into_reel is called, the call fails with the missing-input
   failure and the assembly makes no encoder invocation at all: the check
   comes before any of them. *)
C11_MissingInputFailFast ==
    (pc \in {"combine", "done", "raised"}
        /\ \E i \in 1..Len(ordered_clips) : ordered_clips[i] = GhostName) =>
        /\ \A k \in 1..Len(ffmpeg_calls) : ffmpeg_calls[k].kind = "clip"
        /\ pc \in {"done", "raised"} => raised = "FileNotFoundError"

(* C12: zero usable highlights is a result, not an error:
   generate_highlight_clips returns an empty list without raising on empty
   input, on max_clips = 0 or max_total_duration = 0 (no encoder
   invocation), and when every render fails; combine_clips_into_reel given
   an empty list returns None without raising or invoking the encoder. *)
C12_EmptyIsValid ==
    /\ (Generated /\ (segment_list = <<>> \/ max_clips = 0 \/ max_total_duration = 0)) =>
          clip_files = <<>> /\ ClipCalls = <<>>
    /\ (Generated /\ \A j \in 1..Len(ClipCalls) : ~ClipCalls[j].ok) => clip_files = <<>>
    /\ pc \in {"render", "route"} => raised = "none"
    /\ (ordered_clips = <<>> /\ pc \in {"done", "raised"}) =>
          /\ pc = "done"
          /\ raised = "none"
          /\ result = "None"
          /\ \A k \in 1..Len(ffmpeg_calls) : ffmpeg_calls[k].kind = "clip"

\* every render of the run failed, the clip list came back empty, and the
\* assembly returned None
C12_Witness ==
    /\ pc = "done"
    /\ result = "None"
    /\ Len(ClipCalls) >= 2
    /\ \A j \in 1..Len(ClipCalls) : ~ClipCalls[j].ok
    /\ clip_files = <<>>
    /\ ordered_clips = <<>>

(* C18: every value generate_highlight_clips reports lies in [40, 70], the
   value after the k-th completed clip of n highlights is 40 + 30*k/n, the
   phase ends with 70, and the assembly then reports 71, 72, 100 in that
   order. *)
C18_ProgressProportional ==
    Selected =>
        LET base == Len(asr_segments)
            n    == Len(highlights)
            done == Len(clip_files)
            tail == SubSeq(progress, base + done + 1, Len(progress))
        IN /\ \A k \in 1..done :
                 progress[base + k].num * n = progress[base + k].den * (40 * n + 30 * k)
           /\ \A i \in (base + 1)..(base + done) :
                 /\ 40 * progress[i].den <= progress[i].num
                 /\ progress[i].num <= 70 * progress[i].den
           /\ Generated => tail # <<>> /\ tail[1] = [num |-> 70, den |-> 1]
           /\ \A i \in 1..Len(tail) :
                 tail[i] = [num |-> <<70, 71, 72, 100>>[i], den |-> 1]

---------------------------------------------------------------------------
(* Vocabulary of the caption properties *)

Wrapped == tpc \in {"escape", "escaped"}

\* the words of all lines, in order
RECURSIVE WordsOf(_)
WordsOf(ls) == IF ls = <<>> THEN <<>> ELSE Split(Head(ls)) \o WordsOf(Tail(ls))

FilterSyntax == {"'", ":", ",", "[", "]", "=", "\\"}

\* backslashes that stand directly in front of position i
BackslashRun(t, i) ==
    LET stops == {j \in 1..(i - 1) : t[j] # "\\"}
    IN IF stops = {} THEN i - 1
       ELSE i - 1 - (CHOOSE j \in stops : \A k \in stops : k <= j)

\* position i is the second half of a backslash pair
Escaped(t, i) == BackslashRun(t, i) % 2 = 1

\* every filter-syntax character of t is the second half of a backslash
\* pair, and every backslash that opens a pair has one behind it
Neutralized(t) ==
    \A i \in 1..Len(t) :
        /\ t[i] \in FilterSyntax \ {"\\"} => Escaped(t, i)
        /\ (t[i] = "\\" /\ ~Escaped(t, i)) => (i < Len(t) /\ t[i + 1] \in FilterSyntax)

(* C13: escaping is idempotent: escaping the escaped text again gives the
   escaped text. *)
C13_EscapeIdempotent ==
    tpc = "escaped" => Escape(safe_text) = safe_text

(* C14: in the escaped text every quote, colon, comma, bracket, equals and
   backslash of the input is removed or sits behind an escaping backslash
   that is not itself escaped. *)
C14_EscapeTotal ==
    tpc = "escaped" => Neutralized(safe_text)

(* C15: every wrapped line is at most 60 characters long unless it is one
   single word longer than that; a word longer than 60 is alone on its
   line, and the lines hold the input's words unsplit. *)
C15_WrapWidth ==
    /\ \A i \in 1..Len(lines) :
          /\ \/ Len(lines[i]) <= 60
             \/ Split(lines[i]) = <<lines[i]>>
          /\ \A k \in 1..Len(Split(lines[i])) :
                Len(Split(lines[i])[k]) > 60 => Split(lines[i]) = <<Split(lines[i])[k]>>
    /\ Wrapped => WordsOf(lines) = Split(caption)

\* a line of exactly 60 characters holding two words, then a 61-character
\* word alone on the next line
C15_Witness ==
    /\ tpc = "escaped"
    /\ Len(lines) = 2
    /\ Len(lines[1]) = 60
    /\ Len(Split(lines[1])) = 2
    /\ Len(lines[2]) = 61

(* C19: wrapping loses and adds nothing: no produced line is empty, and
   the words of the lines are the words of the input, in order. *)
C19_WrapLossless ==
    Wrapped =>
        /\ \A i \in 1..Len(lines) : lines[i] # <<>>
        /\ WordsOf(lines) = Split(caption)

---------------------------------------------------------------------------
(* C16: a clip name handed to the assembly that no selection produced is
   rejected with an error and no reel is made, even if a file of that name
   is in the clips folder. *)
C16_ReelOrderValidated ==
    (pc \in {"done", "raised"}
        /\ \E i \in 1..Len(ordered_clips) :
              \A j \in 1..Len(clip_files) : ordered_clips[i] # clip_files[j]) =>
        /\ result # OutputFile
        /\ raised # "none"

---------------------------------------------------------------------------
(* C17: with two requests at once over the same folders, no path is
   written by both, and no request reads a file while the other is writing
   it or after the other's write of it failed. *)
C17_UniquePathsSafeReads ==
    /\ \A p \in ProducedPaths : Cardinality(disk[p].wrote) <= 1
    /\ \A e \in reads : ~e.while_written /\ ~e.after_failed

===========================================================================
